---- MODULE Spec2Model ----
(***************************************************************************)
(* Orchestration engine of the Dannect Unity Toolkit                       *)
(* (dannect_toolkit/core/toolkit.py): execute_action, execute_workflow,    *)
(* the sequential and the thread-pool strategy and the per-project unit    *)
(* of work _execute_single_action.                                         *)
(*                                                                         *)
(* Project paths are opaque: the input list is <<1, .., n>>, so a          *)
(* project's number is its position in the list.  validSet is the set of   *)
(* paths for which UnityProjectConfig.is_valid() holds.  The worker limit  *)
(* ranges over values ToolkitConfig.validate accepts (at least 1).         *)
(***************************************************************************)
EXTENDS Integers, Sequences, FiniteSets, TLC

\* ------------------------------------------------------------------ bounds
NumProjects == 3
MaxWorkers == 2
MaxCommits == 2        \* largest commit count of a branch
MaxTime == 2           \* largest last-commit timestamp of a branch

Projects == 1..NumProjects

\* ------------------------------------------------------------- enums.py
ActionType ==
    {"all_test", "create_button", "test_button", "debug_popup", "check_events",
     "project_info", "build_webgl", "build_webgl_parallel", "clean_builds",
     "package_update", "package_force_update", "git_commit", "git_auto_branch",
     "unity_batch", "unity_batch_parallel", "add_system_method",
     "create_config", "create_projects_file", "save_project_list"}

WorkflowType == {"full_automation", "webgl_build_workflow", "git_automation_workflow"}

UNITY_CLI_METHODS ==
    {"all_test", "create_button", "test_button", "debug_popup", "check_events",
     "project_info", "build_webgl"}

\* Actions with a branch of their own in _execute_single_action.
DedicatedActions ==
    {"build_webgl", "package_update", "package_force_update", "git_commit",
     "add_system_method", "clean_builds", "create_button"}

\* What the collaborator behind _execute_single_action's dispatch can do for
\* an action: return True ("ok"), return False ("fail") or raise ("raise").
\* UnityCliExecutor.execute_action returns False for an action without a CLI
\* method and execute_unity_method turns every exception into False.
ManagerOutcomesSilent(a) ==
    IF a \in DedicatedActions THEN {"ok", "fail", "raise"} ELSE {"ok", "fail"}
ManagerOutcomes(a) ==
    IF a \in DedicatedActions THEN {"ok", "fail", "raise"}
    ELSE IF a \in UNITY_CLI_METHODS THEN {"ok", "fail"}
    ELSE {"fail"}

\* toolkit.py lines 121-127: the actions handed on to
\* UnityCliExecutor.execute_action (create_button after its package update,
\* and every action without a branch of its own).
CliDispatched(a) == a = "create_button" \/ a \notin DedicatedActions

\* unity.py lines 238-240: the executor's "unsupported action" outcome.
UnsupportedAction(a) == CliDispatched(a) /\ a \notin UNITY_CLI_METHODS

\* The step lists of the three workflows.
WorkflowDefUnsupported(w) ==
    IF w = "full_automation"
    THEN <<"package_update", "all_test", "add_system_method", "create_button",
           "build_webgl", "git_commit">>
    ELSE IF w = "webgl_build_workflow"
    THEN <<"clean_builds", "package_update", "build_webgl">>
    ELSE <<"unity_batch", "git_commit">>
WorkflowDef(w) ==
    IF w = "full_automation"
    THEN <<"package_update", "all_test", "add_system_method", "create_button",
           "build_webgl", "git_commit">>
    ELSE IF w = "webgl_build_workflow"
    THEN <<"clean_builds", "package_update", "build_webgl">>
    ELSE <<"all_test", "git_commit">>

\* Single actions a request is drawn from: one with a dedicated handler, one
\* that only has a CLI method, one that has neither.
RequestActions == {"git_commit", "project_info", "git_auto_branch"}

VARIABLES
    projects,              \* the list of paths handed to the toolkit
    validSet,              \* paths for which is_valid() is true
    max_parallel_workers,  \* ToolkitConfig.max_parallel_workers
    det,                   \* per project: a fixed outcome, or "any"
    request,               \* the call made on the toolkit
    pc,                    \* position of the calling thread
    workflow_actions,      \* step list of the running workflow
    step,                  \* 1-based index of the current step (0: no workflow)
    action,                \* action of the current execute_action call
    project_configs,       \* the valid projects of the current call
    mode,                  \* strategy of the current call: none, seq, par
    i,                     \* loop index (sequential loop, submit loop)
    success_count,
    future,                \* per project: state of its future in the pool
    collected,             \* futures already yielded by as_completed
    inflight,              \* units of work executing right now
    ret,                   \* return value of the last execute_action
    result,                \* return value of the request
    failedStep,            \* step at which the workflow returned False
    ran,                   \* actions execute_action was called with
    stepOk,                \* return value of each of those calls
    started,               \* projects whose unit started, in start order
    outcome,               \* what each project's unit did in this batch
    results,               \* per-project results that entered the aggregate
    failedUnits,           \* <<step, project>> of every failed unit
    prev,                  \* the previous batch's results (comparison run)
    \* managers/git.py: one call of commit_and_push_changes on one project
    repo,                  \* the repository at the project path
    repo0,                 \* the repository as it was when the call started
    gpc,                   \* position in commit_and_push_changes
    target_branch,         \* commit_and_push_changes' target_branch
    gitRet,                \* return value of commit_and_push_changes
    cmds,                  \* the commands passed to run_git_command so far
    branches,              \* get_target_branch's branches
    fetched,               \* what the two metric commands did per candidate
    scores,                \* get_branch_hierarchy_info's result per candidate
    glog,                  \* warnings and errors the git manager logged
    \* managers/git.py: one call of run_git_command
    rgc,                   \* its position, command, process outcome, result
    \* cli/main.py and cli/commands.py: one run of the command line
    cpc,                   \* position in main
    unity_editor_path,     \* ToolkitConfig.unity_editor_path
    unityEnv,              \* is the configured editor usable, is one installed
    unity_path,            \* UnityCliExecutor.unity_path
    exit_code              \* <<>> while main runs, <<code>> once it returned

gitVars == <<repo, repo0, gpc, target_branch, gitRet, cmds, branches, fetched,
             scores, glog>>

cliVars == <<cpc, unity_editor_path, unityEnv, unity_path, exit_code>>

\* The orchestrator's variables.
orchVars == <<projects, validSet, max_parallel_workers, det, request, pc,
              workflow_actions, step, action, project_configs, mode, i,
              success_count, future, collected, inflight, ret, result,
              failedStep, ran, stepOk, started, outcome, results, failedUnits,
              prev>>

\* What a call of commit_and_push_changes leaves alone.
tkVars == <<orchVars, rgc, cliVars>>

vars == <<projects, validSet, max_parallel_workers, det, request, pc,
          workflow_actions, step, action, project_configs, mode, i,
          success_count, future, collected, inflight, ret, result, failedStep,
          ran, stepOk, started, outcome, results, failedUnits, prev, gitVars,
          rgc, cliVars>>

\* What the orchestrator's steps leave alone: its inputs and configuration,
\* the repository-level state of the git manager, the adapter call and the
\* command line's own state.
envVars == <<projects, validSet, max_parallel_workers, det, gitVars, rgc,
             cliVars>>
batchVars == <<project_configs, mode, i, success_count, future, collected,
               started, outcome, results>>
wfVars == <<workflow_actions, step, failedStep>>

NoRequest == [kind |-> "none", name |-> "none", parallel |-> FALSE]
NoPrev == [recorded |-> FALSE, parallel |-> FALSE, set |-> {}, result |-> "none"]

BoolStr(b) == IF b THEN "True" ELSE "False"

\* ------------------------------------------------------------ toolkit.py
\* execute_action, lines 41-47: the configs of the paths that are valid, in
\* input order.
ValidConfigsKeepAll(ps, valid) == ps
ValidConfigs(ps, valid) == SelectSeq(ps, LAMBDA p : p \in valid)

\* execute_action, line 55: the strategy choice.
UseParallelOverTwo(parallel, cfgs) == parallel /\ Len(cfgs) > 2
UseParallel(parallel, cfgs) == parallel /\ Len(cfgs) > 1

\* _execute_single_action: the dispatch's return value, with every Exception
\* turned into False by the except clause.  "exc" is an exception leaving
\* the function.
ExecuteSingleActionNoCatch(o) ==
    IF o = "ok" THEN "True" ELSE IF o = "raise" THEN "exc" ELSE "False"
ExecuteSingleAction(o) == IF o = "ok" THEN "True" ELSE "False"

\* _execute_sequential, line 78: the project of the k-th iteration.
SeqProjectReversed(cfgs, k) == cfgs[Len(cfgs) + 1 - k]
SeqProject(cfgs, k) == cfgs[k]

\* Lines 83 and 104: success_count == len(projects).
StrategyResultAny(cnt, cfgs) == IF cnt > 0 THEN "True" ELSE "False"
StrategyResult(cnt, cfgs) == IF cnt = Len(cfgs) THEN "True" ELSE "False"

\* Line 89: ThreadPoolExecutor(max_workers=self.config.max_parallel_workers).
PoolSizeBatch == Len(project_configs)
PoolSize == max_parallel_workers

\* Line 98: `if future.result()`; a future that holds an exception raises
\* here and is logged at line 101 instead of being counted.
FutureOkDone(f) == f \in {"True", "False"}
FutureOk(f) == f = "True"

\* Lines 89-102: the as_completed loop ends when every submitted future has
\* been yielded, and leaving the `with` block joins the workers
\* (shutdown(wait=True)).
BatchCompleteFirst ==
    collected # {}
BatchComplete ==
    /\ \A k \in 1..Len(project_configs) : project_configs[k] \in collected
    /\ \A u \in inflight : u.step # step

\* Lines 146, 162, 176: `if not self.execute_action(...)`.
StepFailedNever(r) == FALSE
StepFailed(r) == r = "False"

\* Lines 144, 161, 175: the for loop moves to the next action of the list.
NextStepSkip(s) == s + 2
NextStep(s) == s + 1

\* The pending future the pool's queue hands to a free worker: the earliest
\* submitted one.
FirstPendingNoReuse ==
    LET ks == {k \in 1..Len(project_configs) :
                 /\ k <= max_parallel_workers
                 /\ future[project_configs[k]] = "pending"}
    IN  IF ks = {} THEN 0
        ELSE project_configs[CHOOSE k \in ks : \A j \in ks : k <= j]
FirstPending ==
    LET ks == {k \in 1..Len(project_configs) : future[project_configs[k]] = "pending"}
    IN  IF ks = {} THEN 0
        ELSE project_configs[CHOOSE k \in ks : \A j \in ks : k <= j]

Running(s) == {u \in inflight : u.step = s}

ResultSet == {results[k] : k \in 1..Len(results)}

\* ---------------------------------------------------------------- git.py
DEFAULT_BRANCH == "main"
DEV_BRANCH == "dev"

\* The branch names a repository of the model can have, in the order in
\* which `git branch -a` lists them.
NameOrder == <<"dev", "feature-a", "feature-b", "main">>
BranchNames == {NameOrder[k] : k \in 1..Len(NameOrder)}

\* A directory without .git.
NoRepo ==
    [isRepo |-> FALSE, local |-> {}, current |-> "none", origin |-> {},
     originHead |-> FALSE, dirty |-> FALSE, staged |-> FALSE,
     committed |-> {}, pushed |-> {}]

\* The repositories a call can find: local branches with the current one (or
\* none: a detached or unborn HEAD), the branches of the remote origin with or
\* without its symbolic HEAD, and a clean or dirty working tree.
Repos ==
    {NoRepo} \cup
    {[isRepo |-> TRUE, local |-> l, current |-> c, origin |-> o,
      originHead |-> h, dirty |-> d, staged |-> FALSE,
      committed |-> {}, pushed |-> {}] :
        l \in SUBSET BranchNames, c \in BranchNames \cup {"none"},
        o \in SUBSET BranchNames, h \in BOOLEAN, d \in BOOLEAN}

WellFormedRepo(r) ==
    /\ r.current \in r.local \cup {"none"}
    /\ r.originHead => DEFAULT_BRANCH \in r.origin

\* stdout of `git branch -a`, one record per line: the current branch (or
\* the detached HEAD) carries the `*` marker, remote branches are printed as
\* remotes/origin/<name> after the local ones, the remote's symbolic HEAD as
\* remotes/origin/HEAD -> origin/main.
BranchLines(r) ==
    LET loc == SelectSeq(NameOrder, LAMBDA n : n \in r.local)
        rem == SelectSeq(NameOrder, LAMBDA n : n \in r.origin)
        detached == IF r.current = "none" /\ r.local # {}
                    THEN <<[star |-> TRUE, prefix |-> "", name |-> "(HEAD detached)"]>>
                    ELSE <<>>
        head == IF r.originHead
                THEN <<[star |-> FALSE, prefix |-> "remotes/origin/",
                        name |-> "HEAD -> origin/main"]>>
                ELSE <<>>
    IN  detached
        \o [k \in 1..Len(loc) |-> [star |-> loc[k] = r.current, prefix |-> "", name |-> loc[k]]]
        \o head
        \o [k \in 1..Len(rem) |-> [star |-> FALSE, prefix |-> "remotes/origin/", name |-> rem[k]]]

\* Line 85: line.replace('remotes/origin/', '').
StripRemote(line) == line.name

\* Line 86: branch.startswith('HEAD').
StartsWithHEAD(name) == name = "HEAD -> origin/main"

InSeq(x, sq) == \E k \in 1..Len(sq) : sq[k] = x

\* get_all_branches, lines 79-89: the loop over the lines of stdout.
RECURSIVE ParseBranchLines(_, _)
ParseBranchLines(lines, acc) ==
    IF lines = <<>> THEN acc
    ELSE LET line == Head(lines)
             branch == StripRemote(line)
         IN  IF /\ ~line.star
                /\ ~InSeq(branch, acc)
                /\ ~StartsWithHEAD(branch)
             THEN ParseBranchLines(Tail(lines), Append(acc, branch))
             ELSE ParseBranchLines(Tail(lines), acc)

\* get_all_branches: the parsed list, or [] when the command failed.
GetAllBranches(ok, lines) == IF ok THEN ParseBranchLines(lines, <<>>) ELSE <<>>

\* What the two metric commands of get_branch_hierarchy_info can do for one
\* branch: rev-list fails (log is then not run), rev-list succeeds and log
\* fails, or both succeed.
NoFetch == [countOk |-> FALSE, count |-> 0, timeOk |-> FALSE, time |-> 0]
FetchOutcomes ==
    {NoFetch}
    \cup {[countOk |-> TRUE, count |-> c, timeOk |-> FALSE, time |-> 0] : c \in 1..MaxCommits}
    \cup {[countOk |-> TRUE, count |-> c, timeOk |-> TRUE, time |-> t] :
            c \in 1..MaxCommits, t \in 1..MaxTime}

\* get_branch_hierarchy_info, lines 124-143.
GetBranchHierarchyInfoZero(f) ==
    IF f.countOk /\ f.timeOk THEN <<f.count, f.time>> ELSE <<0, 0>>
GetBranchHierarchyInfo(f) ==
    IF ~f.countOk THEN <<0, 0>>
    ELSE IF ~f.timeOk THEN <<f.count, 0>>
    ELSE <<f.count, f.time>>

\* find_deepest_branch, line 98: the candidates, trunk excluded.
FilteredBranchesAll(brs) == brs
FilteredBranches(brs) == SelectSeq(brs, LAMBDA b : b # DEFAULT_BRANCH)

\* find_deepest_branch, lines 102-119: the loop over the candidates.
RECURSIVE DeepestLoop(_, _, _)
DeepestLoop(cands, sc, st) ==
    IF cands = <<>> THEN st.deepest_branch
    ELSE LET branch == Head(cands)
             commit_count == sc[branch][1]
             last_commit_time == sc[branch][2]
         IN  IF \/ commit_count > st.max_commits
                \/ (commit_count = st.max_commits /\ last_commit_time > st.latest_time)
             THEN DeepestLoop(Tail(cands), sc,
                      [deepest_branch |-> branch, max_commits |-> commit_count,
                       latest_time |-> last_commit_time])
             ELSE DeepestLoop(Tail(cands), sc, st)

\* find_deepest_branch, lines 92-121; "None" is Python's None.
FindDeepestBranchFirst(brs, sc) ==
    IF brs = <<>> \/ FilteredBranches(brs) = <<>> THEN "None"
    ELSE FilteredBranches(brs)[1]
FindDeepestBranch(brs, sc) ==
    IF brs = <<>> \/ FilteredBranches(brs) = <<>> THEN "None"
    ELSE DeepestLoop(FilteredBranches(brs), sc,
             [deepest_branch |-> "None", max_commits |-> 0, latest_time |-> 0])

\* get_target_branch, lines 54-71.
GetTargetBranchTrunk(brs, sc) ==
    IF FindDeepestBranch(brs, sc) # "None" THEN FindDeepestBranch(brs, sc)
    ELSE DEFAULT_BRANCH
GetTargetBranch(brs, sc) ==
    IF FindDeepestBranch(brs, sc) # "None" THEN FindDeepestBranch(brs, sc)
    ELSE DEV_BRANCH

\* The subcommands of the resolver.
ListOp == "branch -a"
CountOpCheckout == "checkout"
CountOp == "rev-list --count"
TimeOp == "log -1 --format=%ct"

ReadOnlyOps == {"status --porcelain", "branch -a", "rev-list --count", "log -1 --format=%ct"}

\* The commands find_deepest_branch passes to run_git_command: per candidate
\* the commit count and, if that succeeded, the time of the last commit.
RECURSIVE MetricCmds(_, _)
MetricCmds(cands, f) ==
    IF cands = <<>> THEN <<>>
    ELSE LET b == Head(cands)
         IN  <<[op |-> CountOp, arg |-> b, ok |-> f[b].countOk,
                 res |-> IF f[b].countOk THEN "ok" ELSE "other"]>>
             \o (IF f[b].countOk
                 THEN <<[op |-> TimeOp, arg |-> b, ok |-> f[b].timeOk,
                         res |-> IF f[b].timeOk THEN "ok" ELSE "other"]>>
                 ELSE <<>>)
             \o MetricCmds(Tail(cands), f)

\* What a command that exited with 0 did to the repository.
GitEffect(c, r) ==
    IF ~c.ok THEN r
    ELSE IF c.op \in {"checkout", "checkout -b"}
    THEN [r EXCEPT !.current = c.arg, !.local = @ \cup {c.arg}]
    ELSE IF c.op = "add ."
    THEN [r EXCEPT !.staged = r.staged \/ r.dirty, !.dirty = FALSE]
    ELSE IF c.op = "commit"
    THEN [r EXCEPT !.staged = FALSE, !.committed = @ \cup {r.current}]
    ELSE IF c.op = "push -u origin"
    THEN [r EXCEPT !.origin = @ \cup {c.arg}, !.pushed = @ \cup {c.arg}]
    ELSE r

RECURSIVE GitEffects(_, _)
GitEffects(cs, r) ==
    IF cs = <<>> THEN r ELSE GitEffects(Tail(cs), GitEffect(Head(cs), r))

\* run_git_command, lines 21-35: how a command can end in a repository.
\* "ok" is exit code 0; "pathspec" is git's "pathspec ... did not match"
\* error; "other" is any other non-zero exit, a timeout or a spawn error.
RunGitOutcomes(op, arg, r) ==
    IF op = "checkout"
    THEN IF arg \in r.local \cup r.origin THEN {"ok", "other"} ELSE {"pathspec", "other"}
    ELSE IF op = "checkout -b"
    THEN IF arg \in r.local THEN {"other"} ELSE {"ok", "other"}
    ELSE IF op = "commit"
    THEN IF r.staged THEN {"ok", "other"} ELSE {"other"}
    ELSE IF op = "push -u origin"
    THEN IF arg \in r.local THEN {"ok", "other"} ELSE {"other"}
    ELSE {"ok", "other"}

\* Line 162: `if not stdout.strip()` on the output of git status --porcelain.
StatusEmptyNever(r) == FALSE
StatusEmpty(r) == ~r.dirty /\ ~r.staged

NoScores == [b \in BranchNames |-> <<0, 0>>]
NoFetches == [b \in BranchNames |-> NoFetch]

\* No call of the git manager is under way.
GitOff ==
    /\ repo = NoRepo
    /\ repo0 = NoRepo
    /\ gpc = "off"
    /\ target_branch = "none"
    /\ gitRet = "none"
    /\ cmds = <<>>
    /\ branches = <<>>
    /\ fetched = NoFetches
    /\ scores = NoScores
    /\ glog = <<>>

\* ------------------------------------------------------ run_git_command
\* The git subcommands the manager hands to run_git_command.
AdapterCommands ==
    {"status --porcelain", ListOp, CountOp, TimeOp, "checkout", "checkout -b",
     "add .", "commit", "push -u origin"}

ExitCodes == {0, 1, 2}

NoProc == [kind |-> "none", returncode |-> 0, stdout |-> "", stderr |-> ""]
NoResult == [ok |-> FALSE, stdout |-> "", stderr |-> ""]

\* What subprocess.run (lines 24-32) can do: the process exits with a return
\* code and its output, the timeout of the call passes, the shell cannot be
\* spawned, or the output is not valid UTF-8 (whatever the return code).
ProcOutcomes ==
    {[kind |-> "exit", returncode |-> rc, stdout |-> so, stderr |-> se] :
        rc \in ExitCodes, so \in {"", "out"}, se \in {"", "pathspec", "fatal"}}
    \cup {[kind |-> k, returncode |-> 0, stdout |-> "", stderr |-> ""] :
            k \in {"TimeoutExpired", "OSError", "UnicodeDecodeError"}}

\* Line 33: result.returncode == 0.
ExitOk(rc) == rc = 0

\* Line 34: `except Exception` catches every exception subprocess.run raises
\* for a failed run.
CaughtOnlyOSError(kind) == kind = "OSError"
Caught(kind) == kind \in {"TimeoutExpired", "OSError", "UnicodeDecodeError"}

\* Lines 33 and 35: the function returns after its one subprocess.run;
\* nothing sends it back to the try block.
AfterRun(ok, n) == "returned"

AdapterIdle ==
    [pc |-> "off", command |-> "none", proc |-> NoProc, spawns |-> 0,
     ret |-> NoResult]

AdapterOff == rgc = AdapterIdle

\* ------------------------------------------------------- command line
\* main.py, lines 248, 252 and 255: the values main returns.
EXIT_OK == 0
EXIT_FAILURE == 1
EXIT_INTERRUPT == 130

\* main.py, line 248: `return 0 if success else 1`.
ExitCodeZero(success) == EXIT_OK
ExitCode(success) == IF success THEN EXIT_OK ELSE EXIT_FAILURE

UnityEnvs == [configuredValid : BOOLEAN, found : BOOLEAN]

\* unity.py, line 175: a path is configured and validate_unity_path accepts
\* it.
ConfiguredUsable(path, env) == path # "" /\ env.configuredValid

\* unity.py, lines 173-184: _resolve_unity_path returns the configured
\* path, else the path find_unity_editor_path found, else raises.
ResolveUnityPathLenient(path, env) ==
    IF ConfiguredUsable(path, env) THEN [raised |-> FALSE, path |-> path]
    ELSE [raised |-> FALSE, path |-> "found"]
ResolveUnityPath(path, env) ==
    IF ConfiguredUsable(path, env) THEN [raised |-> FALSE, path |-> path]
    ELSE IF env.found THEN [raised |-> FALSE, path |-> "found"]
    ELSE [raised |-> TRUE, path |-> "none"]

\* unity.py, line 181: the path that was found is stored in the
\* configuration; a usable configured path is left as it is.
StoredUnityPathAlways(path, env) == IF env.found THEN "found" ELSE path
StoredUnityPath(path, env) ==
    IF ~ConfiguredUsable(path, env) /\ env.found THEN "found" ELSE path

CliOff ==
    /\ cpc = "off"
    /\ unity_editor_path = ""
    /\ unityEnv = [configuredValid |-> FALSE, found |-> FALSE]
    /\ unity_path = "none"
    /\ exit_code = <<>>

\* ------------------------------------------------------------------ Init
ToolkitInit ==
    /\ \E n \in 0..NumProjects :
         /\ projects = [k \in 1..n |-> k]
         /\ validSet \in SUBSET (1..n)
    /\ max_parallel_workers \in 1..MaxWorkers
    /\ request = NoRequest
    /\ pc = "idle"
    /\ workflow_actions = <<>>
    /\ step = 0
    /\ action = "none"
    /\ project_configs = <<>>
    /\ mode = "none"
    /\ i = 1
    /\ success_count = 0
    /\ future = [p \in Projects |-> "none"]
    /\ collected = {}
    /\ inflight = {}
    /\ ret = "none"
    /\ result = "none"
    /\ failedStep = 0
    /\ ran = <<>>
    /\ stepOk = <<>>
    /\ started = <<>>
    /\ outcome = [p \in Projects |-> "none"]
    /\ results = <<>>
    /\ failedUnits = {}
    /\ prev = NoPrev

InitCommon ==
    /\ ToolkitInit
    /\ GitOff
    /\ AdapterOff
    /\ CliOff

Init ==
    /\ InitCommon
    /\ det = [p \in Projects |-> "any"]

\* --------------------------------------------------------------- requests
\* commands.py line 33: toolkit.execute_action(projects, action, parallel).
RequestAction(a, par) ==
    /\ pc = "idle"
    /\ \A p \in Projects : det[p] \in ManagerOutcomes(a) \cup {"any"}
    /\ request' = [kind |-> "action", name |-> a, parallel |-> par]
    /\ action' = a
    /\ pc' = "ea_entry"
    /\ UNCHANGED <<envVars, wfVars, batchVars, inflight, ret, result, ran,
                   stepOk, failedUnits, prev>>

\* execute_workflow, lines 60-72, and the head of the workflow methods.
RequestWorkflow(w, par) ==
    /\ pc = "idle"
    /\ request' = [kind |-> "workflow", name |-> w, parallel |-> par]
    /\ workflow_actions' = WorkflowDef(w)
    /\ step' = 1
    /\ pc' = "wf_loop"
    /\ UNCHANGED <<envVars, failedStep, action, batchVars, inflight, ret,
                   result, ran, stepOk, failedUnits, prev>>

\* The workflow's for loop: call execute_action for the current step, or
\* fall out of the loop and return True.
WorkflowLoop ==
    /\ pc = "wf_loop"
    /\ IF step <= Len(workflow_actions)
       THEN /\ action' = workflow_actions[step]
            /\ pc' = "ea_entry"
            /\ UNCHANGED result
       ELSE /\ result' = "True"
            /\ pc' = "done"
            /\ UNCHANGED action
    /\ UNCHANGED <<envVars, request, wfVars, batchVars, inflight, ret, ran,
                   stepOk, failedUnits, prev>>

\* Lines 146, 162 and 176: every step of a workflow calls execute_action
\* with the list the workflow was given (k is the step, 0 for a request of
\* a single action).
StepInputRest(projs, k) == IF k > 1 THEN SubSeq(projs, 2, Len(projs)) ELSE projs
StepInput(projs, k) == projs

\* Lines 36-38 and 49-51: the two early `return False` of execute_action.
NoBatchEmptyInputOnly(input, cfgs) == input = <<>>
NoBatch(input, cfgs) == input = <<>> \/ cfgs = <<>>

\* execute_action, lines 34-58.
ExecuteActionEntry ==
    /\ pc = "ea_entry"
    /\ ran' = Append(ran, action)
    /\ LET input == StepInput(projects, step)
           cfgs == ValidConfigs(input, validSet)
       IN  /\ project_configs' = cfgs
           /\ IF NoBatch(input, cfgs)
              THEN /\ ret' = "False"
                   /\ mode' = "none"
                   /\ pc' = "ea_return"
              ELSE /\ ret' = "none"
                   /\ IF UseParallel(request.parallel, cfgs)
                      THEN mode' = "par" /\ pc' = "par_submit"
                      ELSE mode' = "seq" /\ pc' = "seq_loop"
    /\ i' = 1
    /\ success_count' = 0
    /\ future' = [p \in Projects |-> "none"]
    /\ collected' = {}
    /\ started' = <<>>
    /\ outcome' = [p \in Projects |-> "none"]
    /\ results' = <<>>
    /\ UNCHANGED <<envVars, request, wfVars, action, inflight, result, stepOk,
                   failedUnits, prev>>

\* The caller's return from execute_action: the request's result for a
\* single action, the workflow's `if not ...: return False` otherwise.
ExecuteActionReturn ==
    /\ pc = "ea_return"
    /\ stepOk' = Append(stepOk, ret)
    /\ IF request.kind = "action"
       THEN /\ result' = ret
            /\ pc' = "done"
            /\ UNCHANGED <<step, failedStep>>
       ELSE IF StepFailed(ret)
       THEN /\ result' = "False"
            /\ failedStep' = step
            /\ pc' = "done"
            /\ UNCHANGED step
       ELSE /\ step' = NextStep(step)
            /\ pc' = "wf_loop"
            /\ UNCHANGED <<result, failedStep>>
    /\ UNCHANGED <<envVars, request, workflow_actions, action, batchVars,
                   inflight, ret, ran, failedUnits, prev>>

\* ------------------------------------------------- _execute_sequential
\* Line 79: the calling thread enters _execute_single_action for the next
\* project of the list.
SeqStart ==
    /\ pc = "seq_loop"
    /\ i <= Len(project_configs)
    /\ LET p == SeqProject(project_configs, i)
       IN  /\ inflight' = inflight \cup {[step |-> step, project |-> p, thread |-> "caller"]}
           /\ started' = Append(started, p)
    /\ pc' = "seq_unit"
    /\ UNCHANGED <<envVars, request, wfVars, action, project_configs, mode, i,
                   success_count, future, collected, ret, result, ran, stepOk,
                   outcome, results, failedUnits, prev>>

\* How often project p's unit was started in the current batch.
Runs(p) == Cardinality({k \in 1..Len(started) : started[k] = p})

\* Line 78: the for loop moves on to the next project whatever the unit
\* returned.
AdvanceRetry(idx, ok, tries) == IF ~ok /\ tries < 2 THEN idx ELSE idx + 1
Advance(idx, ok, tries) == idx + 1

\* Lines 79-80: the unit returns and its result is counted.  An exception
\* leaving the unit would leave the loop and execute_action with it.
SeqFinish(o) ==
    /\ pc = "seq_unit"
    /\ \E u \in inflight :
         /\ u.step = step /\ u.thread = "caller"
         /\ o \in ManagerOutcomes(action)
         /\ det[u.project] \in {"any", o}
         /\ inflight' = inflight \ {u}
         /\ outcome' = [outcome EXCEPT ![u.project] = o]
         /\ LET r == ExecuteSingleAction(o)
            IN  /\ failedUnits' = IF r = "True" THEN failedUnits
                                  ELSE failedUnits \cup {<<step, u.project>>}
                /\ IF r = "exc"
                   THEN /\ pc' = "raised"
                        /\ UNCHANGED <<success_count, results, i>>
                   ELSE /\ success_count' = IF r = "True" THEN success_count + 1
                                            ELSE success_count
                        /\ results' = Append(results, [project |-> u.project, ok |-> r = "True"])
                        /\ i' = Advance(i, r = "True", Runs(u.project))
                        /\ pc' = "seq_loop"
    /\ UNCHANGED <<envVars, request, wfVars, action, project_configs, mode,
                   future, collected, ret, result, ran, stepOk, started, prev>>

\* Lines 82-83.
SeqReturn ==
    /\ pc = "seq_loop"
    /\ i > Len(project_configs)
    /\ ret' = StrategyResult(success_count, project_configs)
    /\ pc' = "ea_return"
    /\ UNCHANGED <<envVars, request, wfVars, action, batchVars, inflight,
                   result, ran, stepOk, failedUnits, prev>>

\* --------------------------------------------------- _execute_parallel
\* Lines 90-93: the calling thread submits one unit per project, in list
\* order; as_completed starts once the dict is built.
ParSubmit ==
    /\ pc = "par_submit"
    /\ i <= Len(project_configs)
    /\ future' = [future EXCEPT ![project_configs[i]] = "pending"]
    /\ i' = i + 1
    /\ pc' = IF i = Len(project_configs) THEN "par_collect" ELSE "par_submit"
    /\ UNCHANGED <<envVars, request, wfVars, action, project_configs, mode,
                   success_count, collected, inflight, ret, result, ran, stepOk,
                   started, outcome, results, failedUnits, prev>>

\* A worker thread of the pool takes the oldest queued unit; the pool runs
\* at most PoolSize worker threads.
WorkerStart ==
    /\ mode = "par"
    /\ FirstPending # 0
    /\ Cardinality(Running(step)) < PoolSize
    /\ LET p == FirstPending
       IN  /\ future' = [future EXCEPT ![p] = "running"]
           /\ inflight' = inflight \cup {[step |-> step, project |-> p, thread |-> "worker"]}
           /\ started' = Append(started, p)
    /\ UNCHANGED <<envVars, request, pc, wfVars, action, project_configs, mode,
                   i, success_count, collected, ret, result, ran, stepOk,
                   outcome, results, failedUnits, prev>>

\* The worker's call of _execute_single_action ends and its return value (or
\* exception) is stored in the unit's future.
WorkerFinish(o) ==
    \E u \in inflight :
      /\ u.thread = "worker"
      /\ o \in ManagerOutcomes(action)
      /\ det[u.project] \in {"any", o}
      /\ inflight' = inflight \ {u}
      /\ IF u.step = step /\ future[u.project] = "running"
         THEN /\ future' = [future EXCEPT ![u.project] = ExecuteSingleAction(o)]
              /\ outcome' = [outcome EXCEPT ![u.project] = o]
              /\ failedUnits' = IF ExecuteSingleAction(o) = "True" THEN failedUnits
                                ELSE failedUnits \cup {<<step, u.project>>}
         ELSE UNCHANGED <<future, outcome, failedUnits>>
      /\ UNCHANGED <<envVars, request, pc, wfVars, action, project_configs,
                     mode, i, success_count, collected, ret, result, ran,
                     stepOk, started, results, prev>>

\* Lines 98-99: `success_count += 1`, executed by the calling thread only.
CountResultOverwrite(cnt, ok) == IF ok THEN 1 ELSE cnt
CountResult(cnt, ok) == IF ok THEN cnt + 1 ELSE cnt

\* Lines 95-101: as_completed yields a finished future; its result is
\* counted, an exception held by it is logged.
ParCollect(p) ==
    /\ pc = "par_collect"
    /\ p \notin collected
    /\ future[p] \in {"True", "False", "exc"}
    /\ collected' = collected \cup {p}
    /\ success_count' = CountResult(success_count, FutureOk(future[p]))
    /\ results' = Append(results, [project |-> p, ok |-> FutureOk(future[p])])
    /\ UNCHANGED <<envVars, request, pc, wfVars, action, project_configs, mode,
                   i, future, inflight, ret, result, ran, stepOk, started,
                   outcome, failedUnits, prev>>

\* Lines 102-104: the `with` block is left and the aggregate is returned.
ParReturn ==
    /\ pc = "par_collect"
    /\ BatchComplete
    /\ ret' = StrategyResult(success_count, project_configs)
    /\ pc' = "ea_return"
    /\ UNCHANGED <<envVars, request, wfVars, action, batchVars, inflight,
                   result, ran, stepOk, failedUnits, prev>>

\* ------------------------------------------------------- specification
Outcomes == {"ok", "fail", "raise"}

Next ==
    \/ \E a \in RequestActions, par \in BOOLEAN : RequestAction(a, par)
    \/ \E w \in WorkflowType, par \in BOOLEAN : RequestWorkflow(w, par)
    \/ WorkflowLoop
    \/ ExecuteActionEntry
    \/ ExecuteActionReturn
    \/ SeqStart
    \/ \E o \in Outcomes : SeqFinish(o)
    \/ SeqReturn
    \/ ParSubmit
    \/ WorkerStart
    \/ \E o \in Outcomes : WorkerFinish(o)
    \/ \E p \in Projects : ParCollect(p)
    \/ ParReturn

Spec == Init /\ [][Next]_vars

\* The steps of the calling thread.
CallerStep ==
    \/ \E a \in RequestActions, par \in BOOLEAN : RequestAction(a, par)
    \/ \E w \in WorkflowType, par \in BOOLEAN : RequestWorkflow(w, par)
    \/ WorkflowLoop
    \/ ExecuteActionEntry
    \/ ExecuteActionReturn
    \/ SeqStart
    \/ \E o \in Outcomes : SeqFinish(o)
    \/ SeqReturn
    \/ ParSubmit
    \/ \E p \in Projects : ParCollect(p)
    \/ ParReturn

\* The calling thread keeps running, a free worker of the pool takes the
\* next queued unit, and every unit of work terminates.
Fairness ==
    /\ WF_vars(CallerStep)
    /\ WF_vars(WorkerStart)
    /\ WF_vars(\E o \in Outcomes : WorkerFinish(o))

SpecLive == Init /\ [][Next]_vars /\ Fairness

\* ----------------------------------------------------------- properties
IsWorkflow == request.kind = "workflow"

BatchProjects == {project_configs[k] : k \in 1..Len(project_configs)}

NumValid == Cardinality({k \in 1..Len(projects) : projects[k] \in validSet})

StrategyReturned == pc = "ea_return" /\ mode # "none"

\* C1: in a workflow, once a unit of step s has failed for some project, no
\* step after s is ever started, the workflow never returns True, and when
\* it has returned the result is False and the failing step reported is s.
C1_FailureHaltsWorkflow ==
    IsWorkflow =>
        \A fu \in failedUnits :
            /\ Len(ran) <= fu[1]
            /\ result # "True"
            /\ pc = "done" => (result = "False" /\ failedStep = fu[1])

\* Steps [A, B, C], three projects, step B failed for exactly one of them.
C1_Witness ==
    /\ IsWorkflow /\ pc = "done"
    /\ Len(workflow_actions) = 3 /\ Len(project_configs) = 3
    /\ failedStep = 2
    /\ Cardinality(failedUnits) = 1

\* C2: the actions a workflow has run are always the first Len(ran) steps of
\* its step list, in list order, and the workflow returns True exactly when
\* all steps ran and each returned True.
C2_StepsArePrefix ==
    IsWorkflow =>
        LET def == WorkflowDef(request.name)
        IN  /\ Len(ran) <= Len(def)
            /\ ran = SubSeq(def, 1, Len(ran))
            /\ pc # "done" => result = "none"
            /\ pc = "done" =>
                 (result = "True" <=>
                    /\ Len(stepOk) = Len(def)
                    /\ \A k \in 1..Len(stepOk) : stepOk[k] = "True")

C2_Witness ==
    /\ IsWorkflow /\ pc = "done" /\ result = "True"
    /\ request.name = "full_automation" /\ Len(ran) = 6

\* C3: when a strategy returns, its return value is True exactly when the
\* unit of every project of the batch succeeded.
C3_OverallIffAllOk ==
    StrategyReturned =>
        (ret = "True" <=> \A p \in BatchProjects : outcome[p] = "ok")

\* A concurrent batch in which some units succeeded and one did not.
C3_Witness ==
    /\ StrategyReturned /\ mode = "par" /\ ret = "False"
    /\ success_count >= 1

\* C4 as stated: execute_action on a non-empty list returns with as many
\* outcomes in the aggregate as the list has entries.
C4_OneOutcomePerInputProject ==
    (pc = "ea_return" /\ projects # <<>>) => Len(results) = Len(projects)

\* C4 amended: execute_action on a list with at least one valid project
\* returns with exactly one outcome in the aggregate for each valid project
\* of the list, and none for the others.
C4_OneOutcomePerValidProject ==
    (pc = "ea_return" /\ NumValid > 0) =>
        /\ Len(results) = NumValid
        /\ \A k \in 1..Len(projects) :
             Cardinality({j \in 1..Len(results) : results[j].project = projects[k]})
               = IF projects[k] \in validSet THEN 1 ELSE 0

C4_Witness ==
    /\ pc = "ea_return" /\ Len(projects) = 3 /\ Len(results) = 2
    /\ \E p \in Projects : outcome[p] = "raise"

\* C5: no exception leaves a batch, and when a strategy returns every
\* project of the batch has been executed and its recorded result is ok
\* exactly when its own unit succeeded, whatever the other units did.
C5_FailureIsolated ==
    /\ pc # "raised"
    /\ StrategyReturned =>
         \A p \in BatchProjects :
            /\ outcome[p] # "none"
            /\ [project |-> p, ok |-> outcome[p] = "ok"] \in ResultSet

\* A sequential batch in which a unit raised and a later one succeeded.
C5_Witness ==
    /\ StrategyReturned /\ mode = "seq"
    /\ \E p, q \in BatchProjects : p < q /\ outcome[p] = "raise" /\ outcome[q] = "ok"

\* C6: in the concurrent strategy the number of units in flight never exceeds
\* max_parallel_workers.
C6_InFlightBounded ==
    mode = "par" => Cardinality(inflight) <= max_parallel_workers

\* The pool is saturated and a unit is waiting for a free worker.
C6_Witness ==
    /\ mode = "par" /\ FirstPending # 0
    /\ Cardinality(inflight) = max_parallel_workers
    /\ Len(project_configs) > max_parallel_workers

\* C8: in the sequential strategy units start in list order, at most one is
\* in flight, and every unit started before the one in flight has completed.
C8_SequentialInOrder ==
    mode = "seq" =>
        /\ Cardinality(inflight) <= 1
        /\ Len(started) <= Len(project_configs)
        /\ started = SubSeq(project_configs, 1, Len(started))
        /\ Len(started) = Len(results) + Cardinality(inflight)

C8_Witness ==
    /\ mode = "seq" /\ Len(started) = 3 /\ inflight # {}
    /\ \E k \in 1..Len(results) : ~results[k].ok

\* C9 as stated: with parallel selected, no unit is ever executed by the
\* calling thread.
C9_ParallelNeverInline ==
    request.parallel => \A u \in inflight : u.thread = "worker"

\* C9 amended: with parallel selected and at least two valid projects, every
\* unit runs on a worker thread of the pool and, when the batch returns,
\* every project's unit went through a future of the pool.
C9_ParallelDispatchesBatchesOverOne ==
    (request.parallel /\ NumValid >= 2) =>
        /\ \A u \in inflight : u.thread = "worker"
        /\ pc = "ea_return" =>
             \A p \in BatchProjects : p \in collected /\ outcome[p] # "none"

C9_Witness ==
    /\ request.parallel /\ NumValid = 2 /\ pc = "ea_return"
    /\ collected = BatchProjects

\* C10: execute_action returns only when none of its units is in flight, so
\* units of two different steps are never in flight together.
C10_SynchronousBatch ==
    /\ pc \in {"idle", "wf_loop", "ea_entry", "ea_return", "done"} => inflight = {}
    /\ \A u, v \in inflight : u.step = v.step
    /\ StrategyReturned => \A p \in BatchProjects : outcome[p] # "none"

\* Second step of a concurrent workflow with two units in flight.
C10_Witness ==
    /\ IsWorkflow /\ request.parallel /\ step = 2
    /\ Cardinality(inflight) = 2

\* ------------------------------------------------ comparing the strategies
\* The same batch is run twice by execute_action, once with each value of
\* the parallel flag, against an action whose outcome for every project is
\* fixed in advance (det).
InitCompare ==
    /\ InitCommon
    /\ det \in {d \in [Projects -> Outcomes \cup {"any"}] :
                 \A p \in Projects : d[p] = "any" <=> p > Len(projects)}

\* A second execute_action call on the same projects and action with the
\* parallel flag flipped; the first call's per-project results and return
\* value are kept in prev.
RunOtherStrategy ==
    /\ pc = "done"
    /\ request.kind = "action"
    /\ ~prev.recorded
    /\ prev' = [recorded |-> TRUE, parallel |-> request.parallel,
                set |-> ResultSet, result |-> result]
    /\ request' = [request EXCEPT !.parallel = ~request.parallel]
    /\ result' = "none"
    /\ pc' = "ea_entry"
    /\ UNCHANGED <<envVars, wfVars, action, batchVars, inflight, ret, ran,
                   stepOk, failedUnits>>

NextCompare ==
    \/ \E a \in RequestActions, par \in BOOLEAN : RequestAction(a, par)
    \/ RunOtherStrategy
    \/ ExecuteActionEntry
    \/ ExecuteActionReturn
    \/ SeqStart
    \/ \E o \in Outcomes : SeqFinish(o)
    \/ SeqReturn
    \/ ParSubmit
    \/ WorkerStart
    \/ \E o \in Outcomes : WorkerFinish(o)
    \/ \E p \in Projects : ParCollect(p)
    \/ ParReturn

SpecCompare == InitCompare /\ [][NextCompare]_vars

\* C7: for a deterministic action, the batch run under one strategy and then
\* under the other yields the same set of per-project results and the same
\* overall result, whatever the order in which the workers ran and finished.
C7_StrategiesAgree ==
    (pc = "done" /\ prev.recorded) =>
        /\ prev.set = ResultSet
        /\ prev.result = result

\* Three projects with mixed outcomes, run sequentially and then through the
\* pool, where the results were collected out of submission order.
C7_Witness ==
    /\ pc = "done" /\ prev.recorded /\ ~prev.parallel /\ mode = "par"
    /\ Cardinality(ResultSet) = 3
    /\ \E r1, r2 \in ResultSet : r1.ok /\ ~r2.ok
    /\ results[1].project # project_configs[1]

\* C11: in the concurrent strategy, with terminating units and fairly
\* scheduled workers, every submitted unit eventually completes and
\* execute_action eventually returns.
C11_ParallelBatchTerminates ==
    /\ \A p \in Projects :
         (mode = "par" /\ future[p] = "pending") ~> (future[p] \in {"True", "False", "exc"})
    /\ (mode = "par" /\ pc \in {"par_submit", "par_collect"}) ~> (pc = "ea_return")

\* A concurrent batch with more projects than workers has returned.
C11_Witness ==
    /\ StrategyReturned /\ mode = "par"
    /\ Len(project_configs) > max_parallel_workers

\* C12: in the concurrent strategy the success count always equals the
\* number of collected units whose result was True, and when the strategy
\* returns every unit of the batch has been collected.
C12_NoLostUpdate ==
    mode = "par" =>
        /\ success_count = Cardinality({p \in collected : future[p] = "True"})
        /\ pc = "ea_return" =>
             /\ collected = BatchProjects
             /\ success_count = Cardinality({p \in BatchProjects : outcome[p] = "ok"})

\* Two successes and a failure, collected out of submission order.
C12_Witness ==
    /\ StrategyReturned /\ mode = "par"
    /\ success_count = 2 /\ Len(results) = 3
    /\ results[1].project # project_configs[1]

\* ------------------------------------------- commit_and_push_changes
\* One call of GitAutomationManager.commit_and_push_changes on one project
\* path, one step per command handed to run_git_command.
InitGit ==
    /\ ToolkitInit
    /\ projects = <<>>
    /\ max_parallel_workers = 1
    /\ det = [p \in Projects |-> "any"]
    /\ repo \in {r \in Repos : WellFormedRepo(r)}
    /\ repo0 = repo
    /\ gpc = "start"
    /\ target_branch = "none"
    /\ gitRet = "none"
    /\ cmds = <<>>
    /\ branches = <<>>
    /\ fetched = NoFetches
    /\ scores = NoScores
    /\ glog = <<>>
    /\ AdapterOff
    /\ CliOff

\* A command was run: it is recorded and, if it succeeded, takes effect.
Ran(op, arg, o) ==
    LET c == [op |-> op, arg |-> arg, ok |-> o = "ok", res |-> o]
    IN  /\ cmds' = Append(cmds, c)
        /\ repo' = GitEffect(c, repo)

Return(v) ==
    /\ gitRet' = v
    /\ gpc' = "done"

\* logger.warning / logger.error of the git manager.
Logged(level, at) == glog' = Append(glog, [level |-> level, at |-> at])

\* return False after a warning or an error was logged.
FailReturnsTrue(level, at) == Return("True") /\ Logged(level, at)
Fail(level, at) == Return("False") /\ Logged(level, at)

\* The step goes on to the next one.
Goto(next) == gpc' = next /\ UNCHANGED <<gitRet, glog>>

\* Lines 38-41: the project path holds a .git entry.
IsGitRepositoryAlways(r) == TRUE
IsGitRepository(r) == r.isRepo

\* Line 217: the failed checkout reported an unknown pathspec.
CreateOnAnyFailure(o) == o # "ok"
CreateOnFailure(o) == o = "pathspec"

\* Lines 177 and 185: `if not success: return False`.
StepSucceededAlways(o) == TRUE
StepSucceeded(o) == o = "ok"

\* Lines 195-202: the value returned after the push.
PushReturnStrict(o) == BoolStr(o = "ok")
PushReturn(o) == "True"

\* Line 193: the branch named in git push -u origin.
PushBranchDefault(tb) == DEFAULT_BRANCH
PushBranch(tb) == tb

\* Line 146: the commit_message parameter, passed on to git commit -m.
COMMIT_MESSAGE == "commit_message"

\* Lines 152-154: is_git_repository.
GitStart ==
    /\ gpc = "start"
    /\ IF IsGitRepository(repo)
       THEN Goto("status")
       ELSE Fail("warning", "repository")
    /\ UNCHANGED <<tkVars, repo, repo0, target_branch, cmds, branches, fetched, scores>>

\* Lines 157-164: git status --porcelain.
GitStatus(o) ==
    /\ gpc = "status"
    /\ o \in RunGitOutcomes("status --porcelain", "", repo)
    /\ Ran("status --porcelain", "", o)
    /\ IF o # "ok" THEN Fail("error", "status")
       ELSE IF StatusEmpty(repo) THEN Return("True") /\ UNCHANGED glog
       ELSE Goto("resolve")
    /\ UNCHANGED <<tkVars, repo0, target_branch, branches, fetched, scores>>

\* Lines 169 and 56: get_target_branch is entered and get_all_branches
\* runs git branch -a and parses its output.
GitListBranches(o) ==
    /\ gpc = "resolve"
    /\ o \in RunGitOutcomes(ListOp, "", repo)
    /\ Ran(ListOp, "", o)
    /\ branches' = GetAllBranches(o = "ok", BranchLines(repo))
    /\ Goto("deepest")
    /\ UNCHANGED <<tkVars, repo0, target_branch, fetched, scores>>

\* Lines 59-71: find_deepest_branch with get_branch_hierarchy_info for every
\* candidate, and get_target_branch's choice between its result and dev.
GitFindDeepest ==
    /\ gpc = "deepest"
    /\ \E g \in [{b \in BranchNames : InSeq(b, FilteredBranches(branches))} -> FetchOutcomes] :
         LET f == [b \in BranchNames |-> IF b \in DOMAIN g THEN g[b] ELSE NoFetch]
             sc == [b \in BranchNames |-> GetBranchHierarchyInfo(f[b])]
             cs == MetricCmds(FilteredBranches(branches), f)
         IN  /\ fetched' = f
             /\ scores' = sc
             /\ target_branch' = GetTargetBranch(branches, sc)
             /\ cmds' = cmds \o cs
             /\ repo' = GitEffects(cs, repo)
    /\ Goto("checkout")
    /\ UNCHANGED <<tkVars, repo0, branches>>

\* checkout_or_create_branch, lines 208-214 and 230-231: git checkout.
GitCheckout(o) ==
    /\ gpc = "checkout"
    /\ o \in RunGitOutcomes("checkout", target_branch, repo)
    /\ Ran("checkout", target_branch, o)
    /\ IF o = "ok" THEN Goto("add")
       ELSE IF CreateOnFailure(o) THEN Goto("create")
       ELSE Fail("error", "checkout")
    /\ branches' = <<>>
    /\ fetched' = NoFetches
    /\ scores' = NoScores
    /\ UNCHANGED <<tkVars, repo0, target_branch>>

\* checkout_or_create_branch, lines 217-228: git checkout -b.
GitCreate(o) ==
    /\ gpc = "create"
    /\ o \in RunGitOutcomes("checkout -b", target_branch, repo)
    /\ Ran("checkout -b", target_branch, o)
    /\ IF o = "ok" THEN Goto("add")
       ELSE Fail("error", "create")
    /\ UNCHANGED <<tkVars, repo0, target_branch, branches, fetched, scores>>

\* Lines 176-179: git add .
GitAdd(o) ==
    /\ gpc = "add"
    /\ o \in RunGitOutcomes("add .", "", repo)
    /\ Ran("add .", "", o)
    /\ IF StepSucceeded(o) THEN Goto("commit")
       ELSE Fail("error", "add")
    /\ UNCHANGED <<tkVars, repo0, target_branch, branches, fetched, scores>>

\* Lines 182-187: git commit -m with the message passed by the caller.
GitCommit(o) ==
    /\ gpc = "commit"
    /\ o \in RunGitOutcomes("commit", COMMIT_MESSAGE, repo)
    /\ Ran("commit", COMMIT_MESSAGE, o)
    /\ IF StepSucceeded(o) THEN Goto("push")
       ELSE Fail("error", "commit")
    /\ UNCHANGED <<tkVars, repo0, target_branch, branches, fetched, scores>>

\* Lines 192-202: git push -u origin; a failed push is logged as a warning
\* and the call returns True all the same.
GitPush(o) ==
    /\ gpc = "push"
    /\ o \in RunGitOutcomes("push -u origin", PushBranch(target_branch), repo)
    /\ Ran("push -u origin", PushBranch(target_branch), o)
    /\ Return(PushReturn(o))
    /\ IF o = "ok" THEN UNCHANGED glog ELSE Logged("warning", "push")
    /\ UNCHANGED <<tkVars, repo0, target_branch, branches, fetched, scores>>

GitResults == {"ok", "pathspec", "other"}

NextGit ==
    \/ GitStart
    \/ \E o \in GitResults : GitStatus(o)
    \/ \E o \in GitResults : GitListBranches(o)
    \/ GitFindDeepest
    \/ \E o \in GitResults : GitCheckout(o)
    \/ \E o \in GitResults : GitCreate(o)
    \/ \E o \in GitResults : GitAdd(o)
    \/ \E o \in GitResults : GitCommit(o)
    \/ \E o \in GitResults : GitPush(o)

SpecGit == InitGit /\ [][NextGit]_vars

\* ------------------------------------------- properties of the git manager
\* get_target_branch has just returned; its locals are still in view.
Resolved == gpc = "checkout"

\* The non-trunk branches of the list the resolver works on.
Candidates == {b \in BranchNames : InSeq(b, branches) /\ b # DEFAULT_BRANCH}

\* Score a is at least score b: more commits, or as many and not older.
ScoreGeq(a, b) == a[1] > b[1] \/ (a[1] = b[1] /\ a[2] >= b[2])

\* C13: when there are non-trunk candidates the resolver returns one of
\* them, none of the others has more commits, and none with as many commits
\* has a later last commit.
C13_DeepestIsMaximal ==
    (Resolved /\ Candidates # {}) =>
        /\ target_branch \in Candidates
        /\ \A c \in Candidates : ScoreGeq(scores[target_branch], scores[c])

\* C14: when there are non-trunk candidates the resolver returns one of
\* them, whatever their scores; dev as a non-candidate is returned only when
\* there is no candidate.
C14_CandidateReturned ==
    Resolved =>
        /\ Candidates # {} => target_branch \in Candidates
        /\ (target_branch = DEV_BRANCH /\ DEV_BRANCH \notin Candidates) => Candidates = {}

\* C15: in a repository whose only branch is trunk the resolver returns
\* dev, which is neither in the list it worked on nor a branch of the
\* repository.
C15_TrunkOnlyFallsBack ==
    (Resolved /\ repo0.local \cup repo0.origin = {DEFAULT_BRANCH}) =>
        /\ target_branch = DEV_BRANCH
        /\ ~InSeq(DEV_BRANCH, branches)
        /\ DEV_BRANCH \notin repo.local \cup repo.origin

\* Trunk is in the list (it is listed for the remote) and dev is returned.
C15_Witness ==
    /\ Resolved /\ repo0.local = {DEFAULT_BRANCH} /\ repo0.origin = {DEFAULT_BRANCH}
    /\ branches = <<DEFAULT_BRANCH>>
    /\ target_branch = DEV_BRANCH

\* C16: the resolver never returns trunk, no checkout or push of the call
\* names trunk, and the call neither commits on trunk nor pushes it.
C16_NeverTrunk ==
    /\ target_branch # DEFAULT_BRANCH
    /\ \A k \in 1..Len(cmds) :
         cmds[k].op \in {"checkout", "checkout -b", "push -u origin"}
            => cmds[k].arg # DEFAULT_BRANCH
    /\ DEFAULT_BRANCH \notin repo.committed
    /\ DEFAULT_BRANCH \notin repo.pushed

\* The call started on trunk, with trunk also on the remote, and committed
\* and pushed.
C16_Witness ==
    /\ gpc = "done" /\ gitRet = "True"
    /\ repo0.current = DEFAULT_BRANCH /\ DEFAULT_BRANCH \in repo0.origin
    /\ repo.committed # {} /\ repo.pushed # {}

\* C17 as stated: a candidate whose commit-count fetch or timestamp fetch
\* failed is scored (0, 0).
C17_FetchFailureScoresZero ==
    Resolved =>
        \A c \in Candidates :
            (~fetched[c].countOk \/ ~fetched[c].timeOk) => scores[c] = <<0, 0>>

\* C17 amended: a candidate whose commit-count fetch failed is scored
\* (0, 0), one whose timestamp fetch alone failed is scored (count, 0), and
\* the resolver returns a branch name all the same.
C17_FetchFailureScores ==
    Resolved =>
        /\ target_branch \in BranchNames
        /\ \A c \in Candidates :
             /\ ~fetched[c].countOk => scores[c] = <<0, 0>>
             /\ (fetched[c].countOk /\ ~fetched[c].timeOk)
                   => scores[c] = <<fetched[c].count, 0>>

C17_Witness ==
    /\ Resolved
    /\ \E c, d \in Candidates :
         /\ ~fetched[c].countOk
         /\ fetched[d].countOk /\ ~fetched[d].timeOk

\* C18: when git branch -a succeeded, the list holds exactly the local and
\* the remote branches of the repository, each once, and no HEAD entry.
C18_AllBranchesListed ==
    (gpc = "deepest" /\ cmds[Len(cmds)].ok) =>
        /\ {branches[k] : k \in 1..Len(branches)} = repo.local \cup repo.origin
        /\ \A j, k \in 1..Len(branches) : branches[j] = branches[k] => j = k
        /\ \A k \in 1..Len(branches) : ~StartsWithHEAD(branches[k])

\* C19: the steps of get_target_branch leave the repository as it is and
\* run only listing and metric commands.
C19_ResolverReadOnly ==
    [][(gpc \in {"resolve", "deepest"}) =>
         (/\ repo' = repo
          /\ \A k \in (Len(cmds) + 1)..Len(cmds') : cmds'[k].op \in ReadOnlyOps)]_vars

\* The resolver listed the branches and fetched both metrics of a candidate.
C19_Witness ==
    /\ Resolved
    /\ \E c \in Candidates : fetched[c].countOk /\ fetched[c].timeOk
    /\ Len(cmds) >= 4

\* C20: on a repository whose status is empty the call returns True after
\* the status command alone, and the repository is as it was.
C20_CleanTreeNoOp ==
    (gpc = "done" /\ repo0.isRepo /\ ~repo0.dirty /\ ~repo0.staged
       /\ cmds # <<>> /\ cmds[1].ok) =>
        /\ gitRet = "True"
        /\ Len(cmds) = 1
        /\ cmds[1].op = "status --porcelain"
        /\ repo = repo0

C20_Witness ==
    /\ gpc = "done" /\ gitRet = "True"
    /\ repo0.isRepo /\ ~repo0.dirty
    /\ Len(cmds) = 1 /\ Cardinality(repo.local) >= 2

\* --------------------------------- properties of commit_and_push_changes
LastCmd == cmds[Len(cmds)]

\* The call went as far as the push, and the push failed.
PushFailed ==
    /\ gpc = "done" /\ cmds # <<>>
    /\ LastCmd.op = "push -u origin" /\ ~LastCmd.ok

\* C21 as stated: after checkout, add and commit succeeded and the push
\* failed, the value returned is true annotated with a warning.
C21_PushFailureReturnsWarning ==
    PushFailed => gitRet = "True with warning"

\* C21 amended: after checkout, add and commit succeeded the call returns
\* the bare True whether or not the push succeeded; a failed push leaves
\* the commit in place and a warning as the last record of the log.
C21_PushFailureOnlyLogged ==
    /\ (gpc = "done" /\ cmds # <<>> /\ LastCmd.op = "push -u origin")
          => gitRet = "True"
    /\ PushFailed =>
          /\ glog # <<>>
          /\ glog[Len(glog)] = [level |-> "warning", at |-> "push"]
          /\ repo.current \in repo.committed
          /\ repo.current \notin repo.pushed

C21_Witness ==
    /\ PushFailed /\ gitRet = "True"
    /\ repo.committed # {} /\ repo.pushed = {}
    /\ Len(glog) = 1

\* C22: at a path that is not a repository the call returns False, never
\* True, runs no git command and leaves the path as it was.
C22_NotARepositoryFails ==
    ~repo0.isRepo =>
        /\ cmds = <<>>
        /\ repo = repo0
        /\ gitRet # "True"
        /\ gpc = "done" => gitRet = "False"

C22_Witness ==
    /\ gpc = "done" /\ ~repo0.isRepo /\ gitRet = "False"
    /\ glog = <<[level |-> "warning", at |-> "repository"]>>

\* The step of commit_and_push_changes a command belongs to.
StepOf(c) ==
    IF c.op = "status --porcelain" THEN 1
    ELSE IF c.op \in {ListOp, CountOp, TimeOp} THEN 2
    ELSE IF c.op \in {"checkout", "checkout -b"} THEN 3
    ELSE IF c.op = "add ." THEN 4
    ELSE IF c.op = "commit" THEN 5
    ELSE 6

\* C23: the commands of a call come in the order status, branch
\* resolution, checkout-or-create, add, commit, push; the listing, add,
\* commit and push are each run at most once; a step from checkout on
\* directly follows the success of the step before it; checkout and push
\* name the resolved branch and the commit carries the caller's message;
\* and a call that returns True on a dirty tree ran all of them.
C23_StepsInOrder ==
    /\ \A j, k \in 1..Len(cmds) :
         j < k =>
            /\ StepOf(cmds[j]) <= StepOf(cmds[k])
            /\ (cmds[j].op = cmds[k].op) => StepOf(cmds[k]) = 2 /\ cmds[k].op # ListOp
    /\ \A k \in 1..Len(cmds) :
         /\ StepOf(cmds[k]) \in 4..6 =>
               /\ k > 1 /\ cmds[k - 1].ok
               /\ StepOf(cmds[k - 1]) = StepOf(cmds[k]) - 1
         /\ cmds[k].op = "checkout" =>
               /\ k > 2 /\ StepOf(cmds[k - 1]) = 2
               /\ cmds[2].op = ListOp
         /\ cmds[k].op \in {"checkout", "checkout -b", "push -u origin"} =>
               cmds[k].arg = target_branch
         /\ cmds[k].op = "commit" => cmds[k].arg = COMMIT_MESSAGE
    /\ (gpc = "done" /\ gitRet = "True" /\ Len(cmds) > 1) =>
          /\ LastCmd.op = "push -u origin"
          /\ \A n \in 1..6 : \E k \in 1..Len(cmds) : StepOf(cmds[k]) = n

\* Every step ran and succeeded, the branch had to be created.
C23_Witness ==
    /\ gpc = "done" /\ gitRet = "True" /\ LastCmd.op = "push -u origin" /\ LastCmd.ok
    /\ \E k \in 1..Len(cmds) : cmds[k].op = "checkout -b"
    /\ \E k \in 1..Len(cmds) : cmds[k].op = CountOp

\* C24: a call runs git checkout at most once and git checkout -b at most
\* once; the creation directly follows a checkout of the same branch that
\* failed with an unknown pathspec, and follows every such failure; after
\* any other checkout failure, or a failed creation, the call returns
\* False with no further command; add is reached iff one of the two
\* attempts succeeded.
C24_CheckoutThenCreateOnce ==
    /\ \A j, k \in 1..Len(cmds) :
         (cmds[j].op = cmds[k].op /\ cmds[j].op \in {"checkout", "checkout -b"}) => j = k
    /\ \A k \in 1..Len(cmds) :
         /\ cmds[k].op = "checkout -b" =>
               /\ k > 1 /\ cmds[k - 1].op = "checkout"
               /\ cmds[k - 1].res = "pathspec" /\ cmds[k - 1].arg = cmds[k].arg
         /\ (cmds[k].op = "checkout" /\ cmds[k].res = "pathspec") =>
               IF k = Len(cmds) THEN gpc = "create"
               ELSE cmds[k + 1].op = "checkout -b"
         /\ (\/ cmds[k].op = "checkout" /\ cmds[k].res = "other"
             \/ cmds[k].op = "checkout -b" /\ ~cmds[k].ok) =>
               k = Len(cmds) /\ gpc = "done" /\ gitRet = "False"
    /\ (gpc = "add" \/ \E k \in 1..Len(cmds) : cmds[k].op = "add .")
          <=> \E k \in 1..Len(cmds) : cmds[k].op \in {"checkout", "checkout -b"} /\ cmds[k].ok

\* The branch was unknown and its creation failed too.
C24_Witness ==
    /\ gpc = "done" /\ gitRet = "False" /\ Len(cmds) > 2
    /\ LastCmd.op = "checkout -b" /\ ~LastCmd.ok
    /\ cmds[Len(cmds) - 1].res = "pathspec"

\* ------------------------------------------- one call of run_git_command
\* Line 21: the function is entered with a command.
AdapterCall(c) ==
    /\ rgc.pc = "off"
    /\ rgc' = [AdapterIdle EXCEPT !.pc = "try", !.command = c]
    /\ UNCHANGED <<orchVars, gitVars, cliVars>>

\* Lines 24-32: subprocess.run runs the command once; it returns a
\* CompletedProcess or raises.
AdapterSubprocess(p) ==
    /\ rgc.pc = "try"
    /\ rgc' = [rgc EXCEPT !.proc = p, !.spawns = @ + 1,
                          !.pc = IF p.kind = "exit" THEN "completed" ELSE "except"]
    /\ UNCHANGED <<orchVars, gitVars, cliVars>>

\* Line 33: the tuple built from the CompletedProcess.
AdapterReturn ==
    /\ rgc.pc = "completed"
    /\ LET ok == ExitOk(rgc.proc.returncode)
       IN  rgc' = [rgc EXCEPT !.ret = [ok |-> ok, stdout |-> rgc.proc.stdout,
                                       stderr |-> rgc.proc.stderr],
                              !.pc = AfterRun(ok, rgc.spawns)]
    /\ UNCHANGED <<orchVars, gitVars, cliVars>>

\* Lines 34-35: the exception is caught and returned as (False, "", str(e));
\* an exception the handler does not catch leaves the function.
AdapterExcept ==
    /\ rgc.pc = "except"
    /\ IF Caught(rgc.proc.kind)
       THEN rgc' = [rgc EXCEPT !.ret = [ok |-> FALSE, stdout |-> "",
                                        stderr |-> rgc.proc.kind],
                               !.pc = AfterRun(FALSE, rgc.spawns)]
       ELSE rgc' = [rgc EXCEPT !.pc = "raised"]
    /\ UNCHANGED <<orchVars, gitVars, cliVars>>

\* The caller has taken the tuple.
AdapterDone ==
    /\ rgc.pc = "returned"
    /\ rgc' = AdapterIdle
    /\ UNCHANGED <<orchVars, gitVars, cliVars>>

NextAdapter ==
    \/ \E c \in AdapterCommands : AdapterCall(c)
    \/ \E p \in ProcOutcomes : AdapterSubprocess(p)
    \/ AdapterReturn
    \/ AdapterExcept
    \/ AdapterDone

InitAdapter ==
    /\ InitCommon
    /\ projects = <<>>
    /\ max_parallel_workers = 1
    /\ det = [p \in Projects |-> "any"]

SpecAdapter == InitAdapter /\ [][NextAdapter]_vars

\* C25: run_git_command never ends with an exception; what it returns has
\* ok = true iff the process exited with code 0; after a non-zero exit it
\* returns ok = false with the process's output, after a timeout, a spawn
\* error or a decoding error ok = false with empty stdout.
C25_AdapterNeverRaises ==
    /\ rgc.pc # "raised"
    /\ rgc.pc = "returned" =>
         /\ rgc.ret.ok <=> (rgc.proc.kind = "exit" /\ rgc.proc.returncode = 0)
         /\ rgc.proc.kind = "exit" =>
               rgc.ret.stdout = rgc.proc.stdout /\ rgc.ret.stderr = rgc.proc.stderr
         /\ rgc.proc.kind # "exit" =>
               ~rgc.ret.ok /\ rgc.ret.stdout = "" /\ rgc.ret.stderr = rgc.proc.kind

\* A timeout came back as data.
C25_Witness ==
    /\ rgc.pc = "returned" /\ rgc.proc.kind = "TimeoutExpired"
    /\ ~rgc.ret.ok /\ rgc.command = "push -u origin"

\* ------------------------------- a unit of work that calls the adapter
\* The unit the calling thread executes for the commit action calls
\* run_git_command (commit_and_push_changes, line 157); the orchestrator
\* goes on when the call is over.
InCommitUnit == pc = "seq_unit" /\ action = "git_commit"

NextLayers ==
    \/ rgc.pc = "off" /\ Next
    \/ InCommitUnit /\ AdapterCall("status --porcelain")
    \/ \E p \in ProcOutcomes : AdapterSubprocess(p)
    \/ AdapterReturn
    \/ AdapterExcept
    \/ AdapterDone

SpecLayers == Init /\ [][NextLayers]_vars

\* C26: in a batch no project's unit is started twice, and when the
\* strategy returns every project of the batch has been started exactly
\* once, whether its unit succeeded or failed; a call of run_git_command
\* runs its command once, whether or not it succeeded.
C26_NoRetry ==
    /\ \A p \in Projects : Runs(p) <= 1
    /\ (StrategyReturned /\ mode # "none") =>
          /\ \A p \in BatchProjects : Runs(p) = 1
          /\ Len(started) = Len(project_configs)
          /\ Len(results) = Len(project_configs)
    /\ rgc.spawns <= 1
    /\ rgc.pc = "returned" => rgc.spawns = 1

\* The first unit failed, the second is running and its git command failed.
C26_Witness ==
    /\ InCommitUnit /\ Len(started) = 2
    /\ results = <<[project |-> started[1], ok |-> FALSE]>>
    /\ rgc.pc = "returned" /\ ~rgc.ret.ok /\ rgc.spawns = 1

InitCli ==
    /\ ToolkitInit
    /\ GitOff
    /\ AdapterOff
    /\ det = [p \in Projects |-> "any"]
    /\ cpc = "resolve"
    /\ unityEnv \in UnityEnvs
    /\ unity_editor_path \in {"", "configured"}
    /\ unity_editor_path = "" => ~unityEnv.configuredValid
    /\ unity_path = "none"
    /\ exit_code = <<>>

\* main.py, lines 191-201: resolve_projects keeps the valid projects
\* (validate_projects, line 163); without any, main returns 1.
CliResolveProjects ==
    /\ cpc = "resolve"
    /\ LET valid == ValidConfigs(projects, validSet)
       IN  /\ projects' = valid
           /\ IF valid = <<>>
              THEN cpc' = "returned" /\ exit_code' = <<EXIT_FAILURE>>
              ELSE cpc' = "construct" /\ UNCHANGED exit_code
    /\ UNCHANGED <<validSet, max_parallel_workers, det, request, pc,
                   workflow_actions, step, action, project_configs, mode, i,
                   success_count, future, collected, inflight, ret, result,
                   failedStep, ran, stepOk, started, outcome, results,
                   failedUnits, prev, gitVars, rgc, unity_editor_path,
                   unityEnv, unity_path>>

\* commands.py, line 19, toolkit.py, lines 26-28, and unity.py, lines
\* 169-184: the toolkit is built and the editor path resolved; the
\* RuntimeError of an unresolved path is caught at main.py, lines 253-255.
CliConstruct ==
    /\ cpc = "construct"
    /\ LET r == ResolveUnityPath(unity_editor_path, unityEnv)
       IN  IF r.raised
           THEN /\ cpc' = "returned"
                /\ exit_code' = <<EXIT_FAILURE>>
                /\ UNCHANGED <<unity_editor_path, unity_path>>
           ELSE /\ cpc' = "running"
                /\ unity_path' = r.path
                /\ unity_editor_path' = StoredUnityPath(unity_editor_path, unityEnv)
                /\ UNCHANGED exit_code
    /\ UNCHANGED <<orchVars, gitVars, rgc, unityEnv>>

\* main.py, lines 247-248 and 253-255: execute_command returned, or an
\* exception left it.
CliReturn ==
    /\ cpc = "running"
    /\ pc \in {"done", "raised"}
    /\ exit_code' = <<IF pc = "done" THEN ExitCode(result = "True") ELSE EXIT_FAILURE>>
    /\ cpc' = "returned"
    /\ UNCHANGED <<orchVars, gitVars, rgc, unity_editor_path, unityEnv, unity_path>>

\* KeyboardInterrupt is raised in the main thread while execute_command
\* runs; no handler below main catches it.
CliInterrupt ==
    /\ cpc = "running"
    /\ cpc' = "unwind"
    /\ UNCHANGED <<orchVars, gitVars, rgc, unity_editor_path, unityEnv,
                   unity_path, exit_code>>

\* toolkit.py, line 89: leaving the `with` block waits for the pool, whose
\* threads go on with the units that were submitted; main.py, lines 250-252.
CliExitInterrupt ==
    /\ cpc = "unwind"
    /\ \A p \in Projects : future[p] \notin {"pending", "running"}
    /\ exit_code' = <<EXIT_INTERRUPT>>
    /\ cpc' = "interrupted"
    /\ UNCHANGED <<orchVars, gitVars, rgc, unity_editor_path, unityEnv, unity_path>>

NextCli ==
    \/ CliResolveProjects
    \/ CliConstruct
    \/ cpc = "running" /\ Next
    \/ CliReturn
    \/ CliInterrupt
    \/ cpc = "unwind" /\ WorkerStart
    \/ cpc = "unwind" /\ \E o \in Outcomes : WorkerFinish(o)
    \/ CliExitInterrupt

SpecCli == InitCli /\ [][NextCli]_vars

\* --------------------------------------- properties of the command line
\* Neither the configured editor path nor an installed editor can be used.
Unresolvable ==
    /\ ~(unity_editor_path # "" /\ unityEnv.configuredValid)
    /\ ~unityEnv.found

\* C28: when the editor path cannot be resolved the toolkit is never
\* handed a request: no execute_action call is made, no unit of work is
\* started for any project, and main returns 1.
C28_NoEditorAbortsEarly ==
    Unresolvable =>
        /\ cpc \notin {"running", "unwind", "interrupted"}
        /\ pc = "idle" /\ request = NoRequest
        /\ ran = <<>> /\ started = <<>> /\ inflight = {}
        /\ unity_path = "none"
        /\ cpc = "returned" => exit_code = <<EXIT_FAILURE>>

\* Valid projects were named, an unusable path was configured, and main
\* returned 1.
C28_Witness ==
    /\ Unresolvable /\ cpc = "returned" /\ exit_code = <<EXIT_FAILURE>>
    /\ Len(projects) >= 2 /\ unity_editor_path = "configured"

\* C29 as stated: no step of the run changes a field of the configuration.
C29_ConfigNeverChanges ==
    [][/\ unity_editor_path' = unity_editor_path
       /\ max_parallel_workers' = max_parallel_workers]_vars

\* C29 amended: the only change to the configuration is made while the
\* toolkit is built, where the editor path that was found is stored in
\* unity_editor_path if the configured one is unusable; from then on, and
\* while any unit of work runs, no field changes.
C29_ConfigChangesOnlyInConstruction ==
    [][/\ max_parallel_workers' = max_parallel_workers
       /\ (unity_editor_path' # unity_editor_path) =>
             (/\ cpc = "construct"
              /\ ~(unity_editor_path # "" /\ unityEnv.configuredValid)
              /\ unity_editor_path' = "found"
              /\ unity_path' = "found"
              /\ inflight = {} /\ started = <<>>)]_vars

\* Workers run with a configuration whose editor path was replaced.
C29_Witness ==
    /\ cpc = "running" /\ mode = "par" /\ Cardinality(Running(step)) = 2
    /\ unity_editor_path = "found" /\ unity_path = "found"

C31_WorkflowStepsSupported ==
    /\ \A w \in WorkflowType :
         \A k \in 1..Len(WorkflowDef(w)) :
            /\ WorkflowDef(w)[k] \in ActionType
            /\ ~UnsupportedAction(WorkflowDef(w)[k])
    /\ IsWorkflow =>
         /\ \A k \in 1..Len(workflow_actions) : ~UnsupportedAction(workflow_actions[k])
         /\ \A k \in 1..Len(ran) : ~UnsupportedAction(ran[k])
         /\ inflight # {} => ~UnsupportedAction(action)

\* A workflow's unit of a step that goes through the CLI executor is running.
C31_Witness ==
    /\ IsWorkflow /\ pc = "seq_unit"
    /\ action = "create_button" /\ CliDispatched(action)
    /\ inflight # {}

\* ------------------------------------------- failing steps of the commit
\* C32: a failed status check, a failed checkout-or-create (a checkout that
\* failed for another reason than an unknown pathspec, or a failed
\* creation), a failed add and a failed commit are each the last command
\* of the call: the call has returned False, has logged the error of that
\* step last, and no later command was issued.
C32_FailedStepReturnsAtOnce ==
    \A k \in 1..Len(cmds) :
        LET c == cmds[k]
            failed ==
                \/ c.op \in {"status --porcelain", "add .", "commit", "checkout -b"} /\ ~c.ok
                \/ c.op = "checkout" /\ ~c.ok /\ c.res # "pathspec"
            at == IF c.op = "status --porcelain" THEN "status"
                  ELSE IF c.op = "checkout" THEN "checkout"
                  ELSE IF c.op = "checkout -b" THEN "create"
                  ELSE IF c.op = "add ." THEN "add"
                  ELSE "commit"
        IN  failed =>
              /\ k = Len(cmds)
              /\ gpc = "done" /\ gitRet = "False"
              /\ glog # <<>> /\ glog[Len(glog)] = [level |-> "error", at |-> at]
              /\ \A j \in 1..Len(cmds) : StepOf(cmds[j]) <= StepOf(c)

\* The add succeeded and the commit failed: nothing was pushed.
C32_Witness ==
    /\ gpc = "done" /\ gitRet = "False" /\ Len(cmds) > 1
    /\ LastCmd.op = "commit" /\ ~LastCmd.ok
    /\ cmds[Len(cmds) - 1].op = "add ." /\ cmds[Len(cmds) - 1].ok

\* ------------------------------------------------- the branch that is pushed
\* C33: a push directly follows the successful commit of the same call; the
\* branch it names is the one get_target_branch returned, the one a
\* successful checkout or creation of this call named, the branch the
\* repository is on and the branch the commit went to; and target_branch
\* is assigned by the resolver only.
C33_PushAfterCommitSameBranch ==
    /\ [](/\ Resolved => target_branch = GetTargetBranch(branches, scores)
          /\ \A k \in 1..Len(cmds) :
               cmds[k].op = "push -u origin" =>
                  /\ k > 1 /\ cmds[k - 1].op = "commit" /\ cmds[k - 1].ok
                  /\ cmds[k].arg = target_branch
                  /\ \E j \in 1..(k - 1) :
                        /\ cmds[j].op \in {"checkout", "checkout -b"}
                        /\ cmds[j].ok /\ cmds[j].arg = cmds[k].arg
                  /\ repo.current = cmds[k].arg
                  /\ cmds[k].arg \in repo.committed)
    /\ [][(gpc # "deepest") => target_branch' = target_branch]_vars

\* A branch that had to be created was committed to and pushed.
C33_Witness ==
    /\ gpc = "done" /\ Len(cmds) > 1
    /\ LastCmd.op = "push -u origin" /\ LastCmd.ok
    /\ LastCmd.arg \in repo.pushed /\ LastCmd.arg \notin repo0.local

\* ------------------------------------- the resolver on reordered listings
\* get_target_branch called again and again on one repository whose
\* branches keep their metrics while run_git_command returns the lines of
\* git branch -a in another order each time.
\* The repositories of these calls: an attached HEAD, with or without a
\* remote copy of dev, and a listing of at most four lines.
ResolveRepos ==
    {r \in Repos : /\ WellFormedRepo(r) /\ r.isRepo /\ r.dirty
                   /\ r.current \in r.local
                   /\ r.origin \in {{}, {DEV_BRANCH}} /\ ~r.originHead
                   /\ Cardinality(r.local) + Cardinality(r.origin)
                         <= Cardinality(BranchNames)}

\* sq with its elements k and k + 1 exchanged.
Swap(sq, k) ==
    [j \in 1..Len(sq) |-> IF j = k THEN sq[k + 1]
                          ELSE IF j = k + 1 THEN sq[k] ELSE sq[j]]

InitResolve ==
    /\ ToolkitInit
    /\ projects = <<>>
    /\ max_parallel_workers = 1
    /\ det = [p \in Projects |-> "any"]
    /\ CliOff
    /\ repo \in ResolveRepos
    /\ repo0 = repo
    /\ gpc = "resolve"
    /\ target_branch = "none"
    /\ gitRet = "none"
    /\ cmds = <<>>
    /\ branches = <<>>
    /\ fetched \in [BranchNames -> FetchOutcomes]
    /\ \A b \in BranchNames :
         ~InSeq(b, FilteredBranches(GetAllBranches(TRUE, BranchLines(repo))))
            => fetched[b] = NoFetch
    /\ scores = NoScores
    /\ glog = <<>>
    /\ rgc = [AdapterIdle EXCEPT !.pc = "returned", !.command = ListOp, !.spawns = 1,
                                 !.ret = [ok |-> TRUE, stdout |-> BranchLines(repo),
                                          stderr |-> ""]]

\* Lines 54-71: get_all_branches parses what run_git_command returned,
\* find_deepest_branch scores the candidates and get_target_branch returns.
ResolveCall ==
    /\ gpc = "resolve"
    /\ branches' = GetAllBranches(rgc.ret.ok, rgc.ret.stdout)
    /\ scores' = [b \in BranchNames |-> GetBranchHierarchyInfo(fetched[b])]
    /\ target_branch' = GetTargetBranch(branches', scores')
    /\ gpc' = "returned"
    /\ UNCHANGED <<tkVars, repo, repo0, gitRet, cmds, fetched, glog>>

\* Lines 76-78: the next call of git branch -a prints two neighbouring
\* lines the other way round.
Relist(k) ==
    /\ gpc = "returned"
    /\ k \in 1..(Len(rgc.ret.stdout) - 1)
    /\ rgc' = [rgc EXCEPT !.ret.stdout = Swap(@, k)]
    /\ gpc' = "resolve"
    /\ UNCHANGED <<orchVars, cliVars, repo, repo0, target_branch, gitRet, cmds,
                   branches, fetched, scores, glog>>

NextResolve ==
    \/ ResolveCall
    \/ \E k \in 1..(2 * Cardinality(BranchNames)) : Relist(k)

SpecResolve == InitResolve /\ [][NextResolve]_vars

\* The candidates in listing order, and the position of the first one whose
\* score no other candidate's score exceeds.
TopTied(brs, sc) ==
    LET cands == FilteredBranches(brs)
    IN  {k \in 1..Len(cands) :
            /\ sc[cands[k]] # <<0, 0>>
            /\ \A j \in 1..Len(cands) : ScoreGeq(sc[cands[k]], sc[cands[j]])}

\* C34 as stated: a call that follows a reordered listing of the same
\* branches with the same metrics returns what the call before returned.
C34_OrderIndependent ==
    [][(gpc = "resolve" /\ target_branch # "none") => target_branch' = target_branch]_vars

\* C34 amended: get_target_branch returns the same branch for a reordered
\* listing unless several candidates share the highest score and that
\* score is above (0, 0); among candidates tied in that way it returns the
\* one listed first.
C34_OrderIndependentUpToTies ==
    [][(gpc = "resolve") =>
          LET tied == TopTied(branches', scores')
              cands == FilteredBranches(branches')
          IN  /\ (Cardinality(tied) <= 1 /\ target_branch # "none")
                    => target_branch' = target_branch
              /\ tied # {} =>
                    target_branch' = cands[CHOOSE k \in tied : \A j \in tied : k <= j]]_vars

\* The second call on a listing that is not in git's order, with two
\* candidates of different scores.
C34_Witness ==
    /\ gpc = "returned" /\ rgc.ret.stdout # BranchLines(repo)
    /\ \E a, b \in Candidates :
         /\ scores[a] # scores[b] /\ scores[b] # <<0, 0>>
         /\ target_branch = a
         /\ branches[1] = b

\* ------------------------------------------------- nothing valid to run on
\* C35: on an empty project list, or a list without a valid project, no
\* unit is ever started and nothing enters the aggregate; execute_action
\* returns False without choosing a strategy; a single action's result is
\* False, and a workflow returns False at its first step, having called
\* execute_action once.
C35_NothingValidFails ==
    NumValid = 0 =>
        /\ inflight = {} /\ started = <<>> /\ results = <<>> /\ failedUnits = {}
        /\ \A p \in Projects : outcome[p] = "none" /\ future[p] = "none"
        /\ mode = "none" /\ project_configs = <<>>
        /\ pc \notin {"seq_loop", "seq_unit", "par_submit", "par_collect", "raised"}
        /\ pc = "ea_return" => ret = "False"
        /\ pc = "done" =>
              /\ result = "False"
              /\ ran = <<action>> /\ stepOk = <<"False">>
              /\ IsWorkflow => (failedStep = 1 /\ step = 1)

\* A workflow on three paths none of which is a project has returned.
C35_Witness ==
    /\ IsWorkflow /\ pc = "done" /\ result = "False"
    /\ Len(projects) = 3 /\ NumValid = 0
    /\ failedStep = 1

\* ---------------------------------------------------- unsupported actions
\* C36: an action without a branch of its own in _execute_single_action
\* and without a Unity CLI method fails for every project it is run on: no
\* unit of it succeeds or raises, no exception leaves the batch, every
\* result that enters the aggregate is a failure, and the batch and the
\* request return False.
C36_UnsupportedActionFails ==
    /\ \A a \in ActionType :
         UnsupportedAction(a) => \A o \in ManagerOutcomes(a) : ExecuteSingleAction(o) = "False"
    /\ (request.kind = "action" /\ UnsupportedAction(request.name)) =>
         /\ pc # "raised"
         /\ \A p \in Projects : outcome[p] \in {"none", "fail"}
                                /\ future[p] \notin {"True", "exc"}
         /\ \A k \in 1..Len(results) : ~results[k].ok
         /\ success_count = 0
         /\ pc = "ea_return" => ret = "False"
         /\ pc = "done" => result = "False"
         /\ StrategyReturned =>
               /\ Len(results) = Len(project_configs)
               /\ \A p \in BatchProjects : <<step, p>> \in failedUnits

\* A concurrent batch of git_auto_branch over three projects has returned.
C36_Witness ==
    /\ request.kind = "action" /\ request.name = "git_auto_branch"
    /\ UnsupportedAction(action)
    /\ StrategyReturned /\ mode = "par" /\ ret = "False"
    /\ Len(results) = 3

====
